---- MODULE Spec2Model ----
(***************************************************************************)
(* chordrec/augmenters.py: the SemitoneShift and Detuning batch            *)
(* augmenters, their target remappers and the generator protocol of        *)
(* __call__.                                                               *)
(*                                                                         *)
(* Conventions.  Python sequences are 0-based, TLA+ sequences 1-based:     *)
(* element i of an array is element i+1 of the sequence that models it.    *)
(* Class indices, roots and shifts keep their Python values.  Real         *)
(* numbers (p, Detuning's max_shift, the uniform draws) are exact          *)
(* rationals <<num, den>> with den > 0; the values drawn are chosen so     *)
(* that the float arithmetic of the code is exact on them where a claim    *)
(* depends on it (p is a multiple of 1/4).  The code is Python 2           *)
(* (dict.iteritems, line 122): "/" on integers is floor division.          *)
(***************************************************************************)
EXTENDS Integers, Sequences, FiniteSets, TLC

VARIABLES
    args,       \* the arguments of the constructor call made, or NoArgs
    aug,        \* the augmenter instance (its attributes), or NoInstance
    pc,         \* where the construction / the generator stands
    nReq,       \* next() calls the consumer has made on the generator
    nIn,        \* batches the generator has pulled from batch_iterator
    nOut,       \* batches the generator has yielded
    cur,        \* the batch (data, targets) pulled last
    shifts,     \* the shift vector of the batch in hand
    no_shift,   \* the indices random.sample selected (1-based)
    out,        \* the batch yielded last
    r_pc,       \* remapper harness: "in", "fwd", "back"
    r_targets,  \* remapper harness: the one-hot targets given
    r_shifts,   \* remapper harness: the shifts given
    r_out,      \* remapper harness: targets remapped by r_shifts
    r_back      \* remapper harness: r_out remapped by -r_shifts

vars == <<args, aug, pc, nReq, nIn, nOut, cur, shifts, no_shift, out,
          r_pc, r_targets, r_shifts, r_out, r_back>>

streamVars == <<args, aug, pc, nReq, nIn, nOut, cur, shifts, no_shift, out>>
remapVars == <<r_pc, r_targets, r_shifts, r_out, r_back>>

(***************************************************************************)
(* Bounds of the model.                                                    *)
(***************************************************************************)
MaxBatch == 2        \* longest data / targets array of a batch
MaxPulls == 2        \* next() calls the consumer makes
ShiftBound == 13     \* remapper harness: shifts range over -ShiftBound..ShiftBound
MaxRemapBatch == 2   \* remapper harness: longest target batch

(***************************************************************************)
(* Program constants.                                                      *)
(***************************************************************************)
Semitones == 12                  \* "% 12", "/ 12", "* 12"
NumClasses == 2 * Semitones + 1  \* 24 maj/min classes and the no-chord class

(***************************************************************************)
(* Exact rationals.                                                        *)
(***************************************************************************)
Abs(n) == IF n < 0 THEN -n ELSE n

RECURSIVE Gcd(_, _)
Gcd(a, b) == IF b = 0 THEN a ELSE Gcd(b, a % b)

Rat(n, d) ==
    LET g == Gcd(Abs(n), d) IN <<n \div g, d \div g>>

RatIsInt(q) == q[2] = 1

\* int(x) of Python: truncation toward zero.
TruncDiv(n, d) == IF n >= 0 THEN n \div d ELSE -((-n) \div d)

(***************************************************************************)
(* targets.one_hot: row i is the unit vector of class_ids[i], n wide.      *)
(* An index outside 0..n-1 is an IndexError.                               *)
(***************************************************************************)
OneHotRow(c, n) == [j \in 1..n |-> IF j = c + 1 THEN 1 ELSE 0]

one_hot(class_ids, n) ==
    IF \E i \in 1..Len(class_ids) : class_ids[i] < 0 \/ class_ids[i] >= n
    THEN [ok |-> FALSE, val |-> <<>>]
    ELSE [ok |-> TRUE,
          val |-> [i \in 1..Len(class_ids) |-> OneHotRow(class_ids[i], n)]]

(***************************************************************************)
(* numpy helpers of _adapt_targets_chords_maj_min.                         *)
(***************************************************************************)
\* ndarray.argmax(-1) of one row: the first index of the maximum.
ArgMax(row) ==
    (CHOOSE i \in 1..Len(row) :
        /\ \A j \in 1..Len(row) : row[j] <= row[i]
        /\ \A j \in 1..(i - 1) : row[j] < row[i]) - 1

\* targets.shape[-1]
LastDim(targets) == Len(targets[1])

\* Broadcasting of two 1-D shapes: equal, or one of them 1; -1 is the
\* ValueError "operands could not be broadcast together".
BroadcastLen(a, b) ==
    IF a = b THEN a ELSE IF a = 1 THEN b ELSE IF b = 1 THEN a ELSE -1

\* Element j (1-based) of a 1-D array broadcast to a longer shape.
BroadcastAt(arr, j) == IF Len(arr) = 1 THEN arr[1] ELSE arr[j]

\* chord_classes % 12
ChordRoot(c) == c % Semitones

\* chord_classes / 12 (integer operands, Python 2: floor division)
\* (ChordMajMin_Lost: the variant that forgets the quality)
ChordMajMin_Lost(c) == 0
ChordMajMin(c) == c \div Semitones

\* (chord_roots + shifts) % 12: numpy's % takes the sign of the divisor.
\* (NewChordRoot_Unwrapped: the variant without the modulo)
NewChordRoot_Unwrapped(root, s) == root + s
NewChordRoot(root, s) == (root + s) % Semitones

\* new_chord_roots + chord_majmin * 12
NewChordClass(new_root, majmin) == new_root + majmin * Semitones

\* new_chord_classes[no_chords] = no_chord_class, the mask as long as the array
\* (MaskAssign_None: the variant without line 38)
MaskAssign_None(classes, mask, v) == classes
MaskAssign(classes, mask, v) ==
    [j \in 1..Len(classes) |-> IF mask[j] THEN v ELSE classes[j]]

(***************************************************************************)
(* SemitoneShift._adapt_targets_chords_maj_min.  The result is             *)
(* [ok |-> FALSE] when the call raises.  strict tells whether the numpy    *)
(* of the build rejects a boolean index whose length differs from the      *)
(* array's (IndexError) or takes it as the indices of its True entries.    *)
(***************************************************************************)
AdaptTargetsChordsMajMin(targets, shifts_, strict) ==
    LET t == Len(targets)
        chord_classes == [i \in 1..t |-> ArgMax(targets[i])]
        no_chord_class == LastDim(targets) - 1
        no_chords == [i \in 1..t |-> chord_classes[i] = no_chord_class]
        chord_roots == [i \in 1..t |-> ChordRoot(chord_classes[i])]
        chord_majmin == [i \in 1..t |-> ChordMajMin(chord_classes[i])]
        b == BroadcastLen(t, Len(shifts_))
        new_chord_roots ==
            [j \in 1..b |-> NewChordRoot(BroadcastAt(chord_roots, j),
                                         BroadcastAt(shifts_, j))]
        new_chord_classes ==
            [j \in 1..b |-> NewChordClass(new_chord_roots[j],
                                          BroadcastAt(chord_majmin, j))]
        failed == [ok |-> FALSE, val |-> <<>>]
    IN  IF b = -1 THEN failed
        ELSE IF t = b
        THEN one_hot(MaskAssign(new_chord_classes, no_chords, no_chord_class),
                     no_chord_class + 1)
        \* a mask of length 1 on an array of another length
        ELSE IF strict THEN failed
        ELSE IF ~no_chords[1] THEN one_hot(new_chord_classes, no_chord_class + 1)
        ELSE one_hot([j \in 1..b |-> IF j = 1 THEN no_chord_class
                                      ELSE new_chord_classes[j]],
                     no_chord_class + 1)

(***************************************************************************)
(* The remapper harness: _adapt_targets_chords_maj_min applied to given    *)
(* one-hot targets and shifts, then to its own result with the shifts      *)
(* negated.                                                                *)
(***************************************************************************)
AllClasses == 0..(NumClasses - 1)
TailClasses == {0, NumClasses - 2, NumClasses - 1}
RemapShifts == (-ShiftBound)..ShiftBound
TailShifts == {-ShiftBound, 0, 1}

Negated(s) == [i \in 1..Len(s) |-> -s[i]]

\* The first row ranges over every class and the rows after it over
\* TailClasses; likewise the first shift over RemapShifts, the others over
\* TailShifts.
RemapTargetBatches ==
    UNION {{[i \in 1..n |-> OneHotRow(cl[i], NumClasses)] :
               cl \in {f \in [1..n -> AllClasses] :
                          \A i \in 2..n : f[i] \in TailClasses}} :
           n \in 1..MaxRemapBatch}

RemapShiftVectors(n) ==
    {f \in [1..n -> RemapShifts] : \A i \in 2..n : f[i] \in TailShifts}

NoInstance ==
    [kind |-> "none", p |-> <<0, 1>>, max_shift |-> <<0, 1>>,
     bins_per_semitone |-> 0, target_type |-> "", adapt_targets |-> ""]
NoArgs == [class |-> "", max_shift |-> <<0, 1>>, target_type |-> ""]
NoBatch == [data |-> <<>>, targets |-> <<>>]

StreamIdle ==
    /\ args = NoArgs /\ aug = NoInstance /\ pc = "off"
    /\ nReq = 0 /\ nIn = 0 /\ nOut = 0
    /\ cur = NoBatch /\ shifts = <<>> /\ no_shift = {} /\ out = NoBatch

InitRemap ==
    /\ StreamIdle
    /\ r_pc = "in"
    /\ r_targets \in RemapTargetBatches
    /\ r_shifts \in RemapShiftVectors(Len(r_targets))
    /\ r_out = <<>>
    /\ r_back = <<>>

RemapForward ==
    /\ r_pc = "in"
    /\ r_out' = AdaptTargetsChordsMajMin(r_targets, r_shifts, TRUE).val
    /\ r_pc' = "fwd"
    /\ UNCHANGED <<r_targets, r_shifts, r_back>>
    /\ UNCHANGED streamVars

RemapBack ==
    /\ r_pc = "fwd"
    /\ r_back' = AdaptTargetsChordsMajMin(r_out, Negated(r_shifts), TRUE).val
    /\ r_pc' = "back"
    /\ UNCHANGED <<r_targets, r_shifts, r_out>>
    /\ UNCHANGED streamVars

NextRemap == RemapForward \/ RemapBack

SpecRemap == InitRemap /\ [][NextRemap]_vars

(***************************************************************************)
(* Spectrograms.  A sample is a 2-D array, rows first: sample[f][t] with   *)
(* f the frequency bin (axis 0) and t the time frame (axis 1, which is     *)
(* axis -1).  A cell is a value of the input ("sample"), a value scipy     *)
(* interpolates between bins ("spline", at a fractional coordinate of a    *)
(* column) or the constant scipy fills in outside the array ("cval").      *)
(***************************************************************************)
Cell(v) == [kind |-> "sample", v |-> v, at |-> <<0, 1>>]
SplineCell(col, x) == [kind |-> "spline", v |-> col, at |-> x]
CvalCell == [kind |-> "cval", v |-> 0, at |-> <<0, 1>>]

SampleA == <<<<Cell(11), Cell(12)>>, <<Cell(21), Cell(22)>>, <<Cell(31), Cell(32)>>>>
SamplePool == {SampleA}

\* np.roll(a, k, axis=-1) of a 1-D array: element j moves to j + k, wrapping.
Roll1D(a, k) == [j \in 1..Len(a) |-> a[((j - 1 - k) % Len(a)) + 1]]

\* np.roll(a, k, axis=-1) of a 2-D array: every row a[f] is rolled, that is,
\* the cells move along the last axis.
RollLastAxis(a, k) == [f \in 1..Len(a) |-> Roll1D(a[f], k)]

\* scipy.ndimage.shift(a, (d, 0)) with its defaults (order=3, mode='constant',
\* cval=0.0): output cell (f, t) is the spline through column t of the input,
\* read at coordinate f - d of axis 0.  The spline interpolates: at a whole
\* coordinate inside the array it is the input cell there; outside the array
\* the output is cval.  d is a rational.
NdShift(a, d) ==
    [f \in 1..Len(a) |->
        [t \in 1..Len(a[f]) |->
            LET x == Rat((f - 1) * d[2] - d[1], d[2]) IN
            IF x[1] < 0 \/ x[1] > (Len(a) - 1) * x[2] THEN CvalCell
            ELSE IF RatIsInt(x) THEN a[x[1] + 1][t]
            ELSE SplineCell(t, x)]]

(***************************************************************************)
(* The values the configuration and the batches are drawn from.            *)
(***************************************************************************)
PValues == {<<0, 1>>, <<1, 4>>, <<1, 2>>, <<3, 4>>, <<1, 1>>}
SemitoneMaxShifts == {0, 1, 2}
BinsPerSemitone == {1, 2}
TargetTypes == {"chords_maj_min", "chroma", "chords"}
DetuningMaxShifts == {<<-3, 4>>, <<0, 1>>, <<2, 5>>, <<49, 100>>, <<1, 2>>, <<3, 5>>}
UniformDraws == {<<0, 1>>, <<1, 2>>, <<3, 4>>}    \* np.random.rand: [0, 1)

ChordPool == {7, NumClasses - 1}
CMajor == <<1, 0, 0, 0, 1, 0, 0, 1, 0, 0, 0, 0>>
ChromaPool == {CMajor}

SeqsUpTo(S, n) == UNION {[1..k -> S] : k \in 1..n}

\* The batches batch_iterator may hand over: data and targets of any
\* lengths from 1 to MaxBatch, equal or not.
TargetRows(a) ==
    IF a.kind = "SemitoneShift" /\ a.target_type = "chroma"
    THEN ChromaPool
    ELSE {OneHotRow(c, NumClasses) : c \in ChordPool}

Batches(a) ==
    {[data |-> d, targets |-> t] :
        d \in SeqsUpTo(SamplePool, MaxBatch),
        t \in SeqsUpTo(TargetRows(a), MaxBatch)}

(***************************************************************************)
(* The shift sampler of both __call__ bodies.                              *)
(***************************************************************************)
\* int(batch_size * (1 - self.p))
\* (NoShiftCount_P: the variant int(batch_size * self.p))
NoShiftCount_P(batch_size, p) == TruncDiv(batch_size * p[1], p[2])
NoShiftCount(batch_size, p) == TruncDiv(batch_size * (p[2] - p[1]), p[2])

\* random.sample(range(batch_size), k): k distinct indices
RandomSample(batch_size, k) ==
    {S \in SUBSET (1..batch_size) : Cardinality(S) = k}

\* shifts[no_shift] = 0
\* (ZeroOut_Others: the variant that zeroes the indices not selected)
ZeroOut_Others(drawn, sel, zero) ==
    [i \in 1..Len(drawn) |-> IF i \in sel THEN drawn[i] ELSE zero]
ZeroOut(drawn, sel, zero) ==
    [i \in 1..Len(drawn) |-> IF i \in sel THEN zero ELSE drawn[i]]

\* np.random.rand() * 2 * self.max_shift - self.max_shift
DetuneShift(r, m) == Rat(2 * r[1] * m[1] - m[1] * r[2], r[2] * m[2])

\* shifts[i] * self.bins_per_semitone, a real number of bins
BinShift(s, bps) == Rat(s[1] * bps, s[2])

(***************************************************************************)
(* SemitoneShift._adapt_targets_chroma and the dispatch of                 *)
(* self.adapt_targets.                                                     *)
(***************************************************************************)
AdaptTargetsChroma(targets, shifts_) ==
    IF Len(targets) > Len(shifts_)
    THEN [ok |-> FALSE, val |-> <<>>]     \* shifts[i]: IndexError
    ELSE [ok |-> TRUE,
          val |-> [i \in 1..Len(targets) |-> Roll1D(targets[i], shifts_[i])]]

\* self.adapt_targets(targets, shifts); the attribute is missing
\* (AttributeError) when __init__ matched neither target type.
AdaptTargets(a, targets, shifts_, strict) ==
    IF a.adapt_targets = "_adapt_targets_chords_maj_min"
    THEN AdaptTargetsChordsMajMin(targets, shifts_, strict)
    ELSE IF a.adapt_targets = "_adapt_targets_chroma"
    THEN AdaptTargetsChroma(targets, shifts_)
    ELSE [ok |-> FALSE, val |-> <<>>]

(***************************************************************************)
(* Construction.                                                           *)
(***************************************************************************)
RemapIdle ==
    /\ r_pc = "off" /\ r_targets = <<>> /\ r_shifts = <<>>
    /\ r_out = <<>> /\ r_back = <<>>

Init ==
    /\ args = NoArgs /\ aug = NoInstance /\ pc = "new"
    /\ nReq = 0 /\ nIn = 0 /\ nOut = 0
    /\ cur = NoBatch /\ shifts = <<>> /\ no_shift = {} /\ out = NoBatch
    /\ RemapIdle

\* SemitoneShift.__init__: if / elif on target_type, no else branch
SelectAdaptTargets(target_type) ==
    IF target_type = "chords_maj_min" THEN "_adapt_targets_chords_maj_min"
    ELSE IF target_type = "chroma" THEN "_adapt_targets_chroma"
    ELSE "unset"

SemitoneShiftInit(p, max_shift, bins_per_semitone, target_type) ==
    /\ pc = "new"
    /\ args' = [class |-> "SemitoneShift", max_shift |-> <<max_shift, 1>>,
                 target_type |-> target_type]
    /\ aug' = [kind |-> "SemitoneShift", p |-> p,
                max_shift |-> <<max_shift, 1>>,
                bins_per_semitone |-> bins_per_semitone,
                target_type |-> target_type,
                adapt_targets |-> SelectAdaptTargets(target_type)]
    /\ pc' = "constructed"
    /\ UNCHANGED <<nReq, nIn, nOut, cur, shifts, no_shift, out>>
    /\ UNCHANGED remapVars

\* Detuning.__init__: "if max_shift >= 0.5: raise ValueError"
DetuningRejects(max_shift) == 2 * max_shift[1] >= max_shift[2]

DetuningInit(p, max_shift, bins_per_semitone) ==
    /\ pc = "new"
    /\ args' = [class |-> "Detuning", max_shift |-> max_shift,
                 target_type |-> ""]
    /\ IF DetuningRejects(max_shift)
       THEN pc' = "ctor_error" /\ aug' = aug
       ELSE /\ aug' = [kind |-> "Detuning", p |-> p, max_shift |-> max_shift,
                       bins_per_semitone |-> bins_per_semitone,
                       target_type |-> "", adapt_targets |-> ""]
            /\ pc' = "constructed"
    /\ UNCHANGED <<nReq, nIn, nOut, cur, shifts, no_shift, out>>
    /\ UNCHANGED remapVars

(***************************************************************************)
(* __call__: a generator.  Calling it runs none of its body; each next()   *)
(* of the consumer resumes it until the next yield, a raise or the end of  *)
(* batch_iterator.                                                         *)
(***************************************************************************)
Call ==
    /\ pc = "constructed"
    /\ pc' = "suspended"
    /\ UNCHANGED <<args, aug, nReq, nIn, nOut, cur, shifts, no_shift, out>>
    /\ UNCHANGED remapVars

\* The consumer asks for the next batch.  Of the generator's frame only
\* self lives on: data, targets, batch_size, shifts, no_shift, new_targets
\* and new_data are each assigned again (lines 55-69, 101-112) before the
\* next iteration reads them, so the model drops their old values here.
Request ==
    /\ pc = "suspended"
    /\ nReq < MaxPulls
    /\ nReq' = nReq + 1
    /\ pc' = "running"
    /\ cur' = NoBatch /\ shifts' = <<>> /\ no_shift' = {} /\ out' = NoBatch
    /\ UNCHANGED <<args, aug, nIn, nOut>>
    /\ UNCHANGED remapVars

\* "for data, targets in batch_iterator": one batch is taken
\* (PullBatch_Prefetch: the variant that takes a second batch ahead)
PullBatch_Prefetch ==
    /\ pc = "running"
    /\ \E b \in Batches(aug) : cur' = b
    /\ nIn' = nIn + 2
    /\ pc' = "pulled"
    /\ UNCHANGED <<args, aug, nReq, nOut, shifts, no_shift, out>>
    /\ UNCHANGED remapVars
PullBatch ==
    /\ pc = "running"
    /\ \E b \in Batches(aug) : cur' = b
    /\ nIn' = nIn + 1
    /\ pc' = "pulled"
    /\ UNCHANGED <<args, aug, nReq, nOut, shifts, no_shift, out>>
    /\ UNCHANGED remapVars

\* ... or batch_iterator is exhausted and the generator returns
EndOfStream ==
    /\ pc = "running"
    /\ pc' = "exhausted"
    /\ UNCHANGED <<args, aug, nReq, nIn, nOut, cur, shifts, no_shift, out>>
    /\ UNCHANGED remapVars

\* new_data = np.empty_like(data); new_data[i] = np.roll(data[i],
\*     shifts[i] * self.bins_per_semitone, axis=-1)
SemitoneNewData(data, shifts_, bps) ==
    [i \in 1..Len(data) |-> RollLastAxis(data[i], shifts_[i] * bps)]

\* new_data = np.empty_like(data); new_data[i] = shift(data[i],
\*     (shifts[i] * self.bins_per_semitone, 0))
DetuningNewData(data, shifts_, bps) ==
    [i \in 1..Len(data) |-> NdShift(data[i], BinShift(shifts_[i], bps))]

\* Which numpy the build has shows only where a boolean mask of length 1
\* meets an array of another length (_adapt_targets_chords_maj_min, line 38).
NumpyBuilds(batch) ==
    IF Len(batch.targets) = 1 /\ Len(batch.data) # 1 THEN BOOLEAN ELSE {TRUE}

\* SemitoneShift.__call__, lines 56-76: from the batch pulled to the yield,
\* or to the exception that ends the generator.
SemitoneShiftBody ==
    /\ pc = "pulled"
    /\ aug.kind = "SemitoneShift"
    /\ LET batch_size == Len(cur.data)
           m == aug.max_shift[1]
       IN  \E drawn \in [1..batch_size -> (-m)..m] :
           \E sel \in RandomSample(batch_size, NoShiftCount(batch_size, aug.p)) :
           \E strict \in NumpyBuilds(cur) :
             LET sh == ZeroOut(drawn, sel, 0)
                 new_targets == AdaptTargets(aug, cur.targets, sh, strict)
             IN  /\ shifts' = sh
                 /\ no_shift' = sel
                 /\ IF new_targets.ok
                    THEN /\ out' = [data |-> SemitoneNewData(cur.data, sh,
                                                aug.bins_per_semitone),
                                    targets |-> new_targets.val]
                         /\ nOut' = nOut + 1
                         /\ pc' = "suspended"
                    ELSE /\ pc' = "raised"
                         /\ UNCHANGED <<out, nOut>>
    /\ UNCHANGED <<args, aug, nReq, nIn, cur>>
    /\ UNCHANGED remapVars

\* Detuning.__call__, lines 102-117.
DetuningBody ==
    /\ pc = "pulled"
    /\ aug.kind = "Detuning"
    /\ LET batch_size == Len(cur.data)
       IN  \E rand \in [1..batch_size -> UniformDraws] :
           \E sel \in RandomSample(batch_size, NoShiftCount(batch_size, aug.p)) :
             LET drawn == [i \in 1..batch_size |->
                              DetuneShift(rand[i], aug.max_shift)]
                 sh == ZeroOut(drawn, sel, <<0, 1>>)
             IN  /\ shifts' = sh
                 /\ no_shift' = sel
                 /\ out' = [data |-> DetuningNewData(cur.data, sh,
                                        aug.bins_per_semitone),
                            targets |-> cur.targets]
                 /\ nOut' = nOut + 1
                 /\ pc' = "suspended"
    /\ UNCHANGED <<args, aug, nReq, nIn, cur>>
    /\ UNCHANGED remapVars

Next ==
    \/ \E p \in PValues, m \in DetuningMaxShifts, bps \in BinsPerSemitone :
          DetuningInit(p, m, bps)
    \/ \E p \in PValues, m \in SemitoneMaxShifts, bps \in BinsPerSemitone,
          tt \in TargetTypes : SemitoneShiftInit(p, m, bps, tt)
    \/ Call
    \/ Request
    \/ PullBatch
    \/ EndOfStream
    \/ SemitoneShiftBody
    \/ DetuningBody

Spec == Init /\ [][Next]_vars

(***************************************************************************)
(* Properties.                                                             *)
(***************************************************************************)
IsOneHotAt(row, c) == row = OneHotRow(c, Len(row))
Remapped == r_pc \in {"fwd", "back"}
Sentinel(row) == ArgMax(row) = Len(row) - 1

\* C1: in _adapt_targets_chords_maj_min every target whose decoded class is
\* the no-chord class C-1 is remapped to the one-hot target of class C-1,
\* whatever its shift (positive, zero or negative).
C1_SentinelMapsToItself ==
    Remapped =>
        /\ Len(r_out) = Len(r_targets)
        /\ \A i \in 1..Len(r_targets) :
              Sentinel(r_targets[i]) =>
                  /\ Len(r_out[i]) = Len(r_targets[i])
                  /\ IsOneHotAt(r_out[i], Len(r_targets[i]) - 1)

\* A no-chord target shifted down next to a chord target that moved.
C1_Witness ==
    /\ r_pc = "fwd"
    /\ Len(r_targets) = 2
    /\ Sentinel(r_targets[1]) /\ r_shifts[1] < 0
    /\ ~Sentinel(r_targets[2]) /\ r_out[2] # r_targets[2]
    /\ IsOneHotAt(r_out[1], NumClasses - 1)

\* C2: a class c of 0..C-2 (C = 25) shifted by s becomes
\* (c div 12) * 12 + ((c mod 12) + s) mod 12: the same quality, a root in
\* 0..11 congruent to root + s also for negative s, a class in 0..C-2;
\* class 7 shifted by +5 becomes class 0.
C2_NewClassFormula ==
    Remapped =>
        /\ Len(r_out) = Len(r_targets)
        /\ \A i \in 1..Len(r_targets) :
              LET c == ArgMax(r_targets[i])
                  s == r_shifts[i]
                  n == ArgMax(r_out[i])
              IN  ~Sentinel(r_targets[i]) =>
                      /\ Len(r_out[i]) = NumClasses
                      /\ IsOneHotAt(r_out[i], n)
                      /\ n \in 0..(NumClasses - 2)
                      /\ n \div Semitones = c \div Semitones
                      /\ ((n % Semitones) - (c % Semitones) - s) % Semitones = 0
                      /\ n = ((c \div Semitones) * Semitones)
                               + (((c % Semitones) + s) % Semitones)
                      /\ (c = 7 /\ s = 5) => n = 0

\* A minor chord shifted down below root 0, so that the root wraps.
C2_Witness ==
    /\ r_pc = "fwd"
    /\ Len(r_targets) = 1
    /\ ArgMax(r_targets[1]) = Semitones + 2
    /\ r_shifts[1] = -5
    /\ ArgMax(r_out[1]) = Semitones + 9

\* C3: remapping the one-hot target of a class other than no-chord by s and
\* the result by -s gives the one-hot target of the class again.
C3_RoundTrip ==
    r_pc = "back" =>
        /\ Len(r_back) = Len(r_targets)
        /\ \A i \in 1..Len(r_targets) :
              ~Sentinel(r_targets[i]) => r_back[i] = r_targets[i]

\* A round trip through a different class, the root wrapping on the way.
C3_Witness ==
    /\ r_pc = "back"
    /\ ArgMax(r_targets[1]) = NumClasses - 2
    /\ r_shifts[1] = 3
    /\ ArgMax(r_out[1]) = Semitones + 2
    /\ r_back[1] = r_targets[1]

Yielded == pc = "suspended" /\ nOut > 0
BodyRan == Yielded \/ pc = "raised"
WellFormed(batch) == Len(batch.data) = Len(batch.targets)
ZeroShift == IF aug.kind = "SemitoneShift" THEN 0 ELSE <<0, 1>>

\* The indices selected are distinct indices of the batch and their shifts
\* are 0.
SelectionZeroed ==
    /\ Len(shifts) = Len(cur.data)
    /\ no_shift \subseteq 1..Len(cur.data)
    /\ \A i \in no_shift : shifts[i] = ZeroShift

C6_UnsupportedTargetTypeRejected ==
    /\ aug.kind = "SemitoneShift" =>
           aug.target_type \in {"chords_maj_min", "chroma"}
    /\ (args.class = "SemitoneShift"
          /\ args.target_type \notin {"chords_maj_min", "chroma"}) =>
           (pc = "ctor_error" /\ aug = NoInstance)
    /\ ~(pc = "raised" /\ aug.adapt_targets = "unset")

\* C7 as stated: Detuning's construction fails exactly when max_shift >= 0.5,
\* a failed construction leaves no instance, and every shift an instance
\* draws is below 0.5 in magnitude.
C7_DetuningShiftBelowHalf ==
    /\ args.class = "Detuning" =>
           /\ (pc = "ctor_error") <=> (2 * args.max_shift[1] >= args.max_shift[2])
           /\ pc = "ctor_error" => aug = NoInstance
    /\ (aug.kind = "Detuning" /\ BodyRan /\ WellFormed(cur)) =>
           \A i \in 1..Len(shifts) : 2 * Abs(shifts[i][1]) < shifts[i][2]

\* C8: the generator is lazy and one-to-one: nothing is pulled before the
\* consumer asks, one batch is pulled per request and none ahead of the
\* yield, the k-th batch yielded is made of the k-th batch pulled and of
\* this batch's shifts alone, and it has as many samples.
C8_LazyOneToOne ==
    /\ nOut <= nIn /\ nIn <= nReq
    /\ pc \in {"new", "constructed", "ctor_error"} => nReq = 0
    /\ pc = "suspended" => (nIn = nOut /\ nOut = nReq)
    /\ pc = "running" => (nIn = nReq - 1 /\ nOut = nIn)
    /\ pc = "pulled" => (nIn = nReq /\ nOut = nIn - 1)
    /\ pc \in {"raised", "exhausted"} => nOut = nReq - 1
    /\ Yielded =>
           /\ Len(out.data) = Len(cur.data)
           /\ out.data = IF aug.kind = "SemitoneShift"
                         THEN SemitoneNewData(cur.data, shifts,
                                              aug.bins_per_semitone)
                         ELSE DetuningNewData(cur.data, shifts,
                                              aug.bins_per_semitone)

\* The second batch of a stream, two samples long, has been yielded.
C8_Witness ==
    /\ Yielded
    /\ nOut = 2 /\ nIn = 2 /\ nReq = 2
    /\ Len(cur.data) = 2
    /\ Len(out.data) = 2

\* np.roll(a, k, axis=0) of a 2-D array: the rows move, that is, the cells
\* move along the frequency axis of a (frequency bins x time frames) sample.
RollAxis0(a, k) == [f \in 1..Len(a) |-> a[((f - 1 - k) % Len(a)) + 1]]

\* C9 as stated: SemitoneShift yields every sample rolled by
\* shifts[i] * bins_per_semitone bins along the frequency axis (axis 0, the
\* axis Detuning shifts), the time axis untouched.
C9_RollsFrequencyAxis ==
    (Yielded /\ aug.kind = "SemitoneShift" /\ WellFormed(cur)) =>
        \A i \in 1..Len(cur.data) :
            out.data[i] = RollAxis0(cur.data[i],
                                    shifts[i] * aug.bins_per_semitone)

\* C10 as stated (for augmenters whose max_shift is not negative): a batch
\* whose data and targets differ in length is never yielded: whatever is
\* yielded comes from a batch of equal lengths and has equal lengths.
C10_MalformedBatchRaises ==
    (Yielded /\ aug.max_shift[1] >= 0) =>
        (WellFormed(cur) /\ WellFormed(out))

====
